---- MODULE Spec2Model ----
(***************************************************************************)
(* Model of stac_script_raster_2.py: a one-shot pipeline that reads one    *)
(* raster, builds a STAC catalog with one item, writes a thumbnail and a   *)
(* legend next to the raster and saves the catalog.                        *)
(*                                                                         *)
(* Strings the script parses or formats are sequences of one-character     *)
(* strings; paths are sequences of path components, an absolute path       *)
(* starting with the component "/".                                        *)
(***************************************************************************)
EXTENDS Integers, Sequences, FiniteSets, TLC

VARIABLES
    pc,           \* the statement the script executes next
    raster,       \* the raster on disk: [bounds, tag]
    fs,           \* the filesystem: path -> <<kind, body>>
    handles,      \* raster datasets currently open
    opens,        \* rasterio.open calls that succeeded so far
    bbox, geometry,
    date_str, start_dt, end_dt,
    catalog,      \* the pystac.Catalog: its item ids and the root href
    item,         \* the pystac.Item
    lulc_classes,
    log           \* the stages executed so far, in order

vars == <<pc, raster, fs, handles, opens, bbox, geometry, date_str,
          start_dt, end_dt, catalog, item, lulc_classes, log>>

\* Largest coordinate of the raster bounds the model enumerates.
MaxCoord == 2

(***************************************************************************)
(* Paths (lines 10-18, 90, 119, 140-141).                                  *)
(***************************************************************************)
tif_path == <<"/", "home", "vishnu", "corestack_STAC", "data", "gobindpur_lulc_2023_2024.tif">>
qgis_style_path == <<"/", "home", "vishnu", "corestack_STAC", "data", "style_file.qml">>
output_dir == <<"/", "home", "vishnu", "corestack_STAC", "output_catalog_lulc">>
item_id == "gobindpur-lulc"

\* os.path.join(a, name)
PathJoin(a, name) == Append(a, name)

\* os.path.dirname(p)
Dirname(p) == SubSeq(p, 1, Len(p) - 1)

item_dir == PathJoin(output_dir, item_id)
data_dir == Dirname(tif_path)
thumb_path == PathJoin(data_dir, "thumbnail.png")
legend_path == PathJoin(data_dir, "legend.json")
default_item_path == PathJoin(item_dir, "item.json")
custom_item_path == PathJoin(item_dir, item_id \o ".json")
catalog_path == PathJoin(output_dir, "catalog.json")

\* The paths the script reads, tests or writes.
Paths == {tif_path, qgis_style_path, item_dir, thumb_path, legend_path,
          default_item_path, custom_item_path, catalog_path}

IsAbsolute(p) == Len(p) > 0 /\ p[1] = "/"

\* Joining a relative href onto a directory and normalising "..", as
\* pystac's make_absolute_href does with the owner's directory.
RECURSIVE Resolve(_, _)
Resolve(dir, href) ==
    IF href = <<>> THEN dir
    ELSE IF Head(href) = ".."
         THEN Resolve(IF Len(dir) > 1 THEN Dirname(dir) ELSE dir, Tail(href))
         ELSE Resolve(Append(dir, Head(href)), Tail(href))

RECURSIVE CommonPrefixLen(_, _)
CommonPrefixLen(a, b) ==
    IF a = <<>> \/ b = <<>> \/ Head(a) # Head(b) THEN 0
    ELSE 1 + CommonPrefixLen(Tail(a), Tail(b))

\* os.path.relpath(target, dir) for two absolute paths.
MakeRelative(target, dir) ==
    LET k == CommonPrefixLen(target, dir)
    IN  [i \in 1..(Len(dir) - k) |-> ".."] \o SubSeq(target, k + 1, Len(target))

(***************************************************************************)
(* datetime and datetime.strptime(date_str, "%Y:%m:%d %H:%M:%S")           *)
(***************************************************************************)
DateTime(y, m, d, H, M, S) == [y |-> y, m |-> m, d |-> d, H |-> H, M |-> M, S |-> S]

\* Python's None in the place of a datetime (no datetime has year 0).
NoneDt == DateTime(0, 0, 0, 0, 0, 0)

Digits == <<"0", "1", "2", "3", "4", "5", "6", "7", "8", "9">>
IsDigit(c) == \E i \in 1..10 : Digits[i] = c
DigitVal(c) == (CHOOSE i \in 1..10 : Digits[i] = c) - 1
IsSpace(c) == c = " "

\* s[i], or "" past the end
At(s, i) == IF i >= 1 /\ i <= Len(s) THEN s[i] ELSE ""
In(c, lo, hi) == IsDigit(c) /\ DigitVal(c) >= lo /\ DigitVal(c) <= hi

\* The number of characters each directive's regular expression consumes
\* at position i (0: no match), its alternatives tried in their order.
\* %Y: \d\d\d\d
LenY(s, i) ==
    IF \A k \in 0..3 : IsDigit(At(s, i + k)) THEN 4 ELSE 0
\* %m: 1[0-2]|0[1-9]|[1-9]
Lenm(s, i) ==
    IF At(s, i) = "1" /\ In(At(s, i + 1), 0, 2) THEN 2
    ELSE IF At(s, i) = "0" /\ In(At(s, i + 1), 1, 9) THEN 2
    ELSE IF In(At(s, i), 1, 9) THEN 1 ELSE 0
\* %d: 3[0-1]|[1-2]\d|0[1-9]|[1-9]| [1-9]
Lend(s, i) ==
    IF At(s, i) = "3" /\ In(At(s, i + 1), 0, 1) THEN 2
    ELSE IF In(At(s, i), 1, 2) /\ IsDigit(At(s, i + 1)) THEN 2
    ELSE IF At(s, i) = "0" /\ In(At(s, i + 1), 1, 9) THEN 2
    ELSE IF In(At(s, i), 1, 9) THEN 1
    ELSE IF At(s, i) = " " /\ In(At(s, i + 1), 1, 9) THEN 2 ELSE 0
\* %H: 2[0-3]|[0-1]\d|\d
LenH(s, i) ==
    IF At(s, i) = "2" /\ In(At(s, i + 1), 0, 3) THEN 2
    ELSE IF In(At(s, i), 0, 1) /\ IsDigit(At(s, i + 1)) THEN 2
    ELSE IF IsDigit(At(s, i)) THEN 1 ELSE 0
\* %M: [0-5]\d|\d
LenM(s, i) ==
    IF In(At(s, i), 0, 5) /\ IsDigit(At(s, i + 1)) THEN 2
    ELSE IF IsDigit(At(s, i)) THEN 1 ELSE 0
\* %S: 6[0-1]|[0-5]\d|\d
LenS(s, i) ==
    IF At(s, i) = "6" /\ In(At(s, i + 1), 0, 1) THEN 2
    ELSE IF In(At(s, i), 0, 5) /\ IsDigit(At(s, i + 1)) THEN 2
    ELSE IF IsDigit(At(s, i)) THEN 1 ELSE 0
\* a space of the format: \s+
RECURSIVE LenWs(_, _)
LenWs(s, i) == IF IsSpace(At(s, i)) THEN 1 + LenWs(s, i + 1) ELSE 0

\* int() of the digits of s[i .. i+n-1], a blank counting as nothing
RECURSIVE IntOf(_, _, _)
IntOf(s, i, n) ==
    IF n = 0 THEN 0
    ELSE IF IsDigit(At(s, i + n - 1))
         THEN 10 * IntOf(s, i, n - 1) + DigitVal(At(s, i + n - 1))
         ELSE IntOf(s, i, n - 1)

IsLeap(y) == (y % 4 = 0 /\ y % 100 # 0) \/ y % 400 = 0
DaysInMonth(y, m) ==
    IF m = 2 THEN (IF IsLeap(y) THEN 29 ELSE 28)
    ELSE IF m \in {4, 6, 9, 11} THEN 30 ELSE 31

\* The checks of the datetime constructor (ValueError otherwise).
ValidDateTime(dt) ==
    /\ dt.y >= 1 /\ dt.y <= 9999
    /\ dt.m >= 1 /\ dt.m <= 12
    /\ dt.d >= 1 /\ dt.d <= DaysInMonth(dt.y, dt.m)
    /\ dt.H >= 0 /\ dt.H <= 23
    /\ dt.M >= 0 /\ dt.M <= 59
    /\ dt.S >= 0 /\ dt.S <= 59

\* strptime: [ok |-> TRUE, dt |-> the datetime], or ok = FALSE where Python
\* raises ValueError (no match, unconverted data, value out of range).
Strptime(s) ==
    LET iY == 1
        nY == LenY(s, iY)
        im == iY + nY + 1
        nm == Lenm(s, im)
        id == im + nm + 1
        nd == Lend(s, id)
        iw == id + nd
        nw == LenWs(s, iw)
        iH == iw + nw
        nH == LenH(s, iH)
        iM == iH + nH + 1
        nM == LenM(s, iM)
        iS == iM + nM + 1
        nS == LenS(s, iS)
        matched ==
            /\ nY > 0 /\ At(s, iY + nY) = ":"
            /\ nm > 0 /\ At(s, im + nm) = ":"
            /\ nd > 0 /\ nw > 0
            /\ nH > 0 /\ At(s, iH + nH) = ":"
            /\ nM > 0 /\ At(s, iM + nM) = ":"
            /\ nS > 0
        dt == DateTime(IntOf(s, iY, nY), IntOf(s, im, nm), IntOf(s, id, nd),
                       IntOf(s, iH, nH), IntOf(s, iM, nM), IntOf(s, iS, nS))
    IN  IF matched /\ iS + nS = Len(s) + 1 /\ ValidDateTime(dt)
        THEN [ok |-> TRUE, dt |-> dt]
        ELSE [ok |-> FALSE, dt |-> NoneDt]

\* Python's truth value of a tag string or of a datetime-or-None.
Truthy(s) == s # <<>> /\ s # <<"None">>
IsNone(dt) == dt = NoneDt

\* dt1 <= dt2
DtKey(dt) == <<dt.y, dt.m, dt.d, dt.H, dt.M, dt.S>>
RECURSIVE LexLeq(_, _)
LexLeq(a, b) ==
    IF a = <<>> THEN TRUE
    ELSE IF Head(a) # Head(b) THEN Head(a) < Head(b)
    ELSE LexLeq(Tail(a), Tail(b))
DtLeq(a, b) == LexLeq(DtKey(a), DtKey(b))
DtLess(a, b) == DtLeq(a, b) /\ a # b

\* datetime.isoformat() of a datetime without microseconds
Pad(n, w) == [i \in 1..w |-> Digits[((n \div (10 ^ (w - i))) % 10) + 1]]
IsoFormat(dt) ==
    Pad(dt.y, 4) \o <<"-">> \o Pad(dt.m, 2) \o <<"-">> \o Pad(dt.d, 2) \o <<"T">>
    \o Pad(dt.H, 2) \o <<":">> \o Pad(dt.M, 2) \o <<":">> \o Pad(dt.S, 2)


(***************************************************************************)
(* The raster: its bounds and its TIFFTAG_DATETIME tag.                    *)
(***************************************************************************)
Y2023 == <<"2", "0", "2", "3">>
Midnight == <<"0", "0", ":", "0", "0", ":", "0", "0">>
\* tags.get("TIFFTAG_DATETIME") of a raster without the tag
NoTag == <<"None">>
\* "2023:06:15 00:00:00"
TagScenario == Y2023 \o <<":", "0", "6", ":", "1", "5", " ">> \o Midnight
\* "2023:6:5 1:2:3"
TagUnpadded == Y2023 \o <<":", "6", ":", "5", " ", "1", ":", "2", ":", "3">>
\* "2024:02:29 23:59:59"
TagLeapDay == <<"2", "0", "2", "4", ":", "0", "2", ":", "2", "9", " ",
                "2", "3", ":", "5", "9", ":", "5", "9">>
\* "2023:02:29 00:00:00"
TagNoSuchDay == Y2023 \o <<":", "0", "2", ":", "2", "9", " ">> \o Midnight
\* "2023:06:15 00:00:60"
TagSecond60 == Y2023 \o <<":", "0", "6", ":", "1", "5", " ", "0", "0", ":", "0", "0", ":", "6", "0">>
\* "2023:13:01 00:00:00"
TagMonth13 == Y2023 \o <<":", "1", "3", ":", "0", "1", " ">> \o Midnight
\* "2023:06:15"
TagDateOnly == Y2023 \o <<":", "0", "6", ":", "1", "5">>
\* "2023-06-15 00:00:00"
TagDashes == Y2023 \o <<"-", "0", "6", "-", "1", "5", " ">> \o Midnight
\* "2023:06:15 00:00:00 "
TagTrailing == TagScenario \o <<" ">>
\* "0000:01:01 00:00:00"
TagYearZero == <<"0", "0", "0", "0", ":", "0", "1", ":", "0", "1", " ">> \o Midnight

TagValues == {NoTag, <<>>, TagScenario, TagUnpadded, TagLeapDay, TagNoSuchDay,
              TagSecond60, TagMonth13, TagDateOnly, TagDashes, TagTrailing,
              TagYearZero}

\* src.bounds of a georeferenced north-up raster: left < right, bottom < top
BoundsValues ==
    {b \in [left : 0..MaxCoord, bottom : 0..MaxCoord,
            right : 0..MaxCoord, top : 0..MaxCoord] :
        b.left < b.right /\ b.bottom < b.top}

\* shapely: mapping(box(minx, miny, maxx, maxy)), the ring counter-clockwise
\* from (maxx, miny)
Box(b) ==
    [type |-> "Polygon",
     coordinates |-> << <<b[3], b[2]>>, <<b[3], b[4]>>, <<b[1], b[4]>>,
                        <<b[1], b[2]>>, <<b[3], b[2]>> >>]

NoGeometry == [type |-> "", coordinates |-> <<>>]

(***************************************************************************)
(* The filesystem.                                                         *)
(***************************************************************************)
Absent == <<"absent">>
\* a file some earlier process left behind
Stale == <<"stale">>
Directory == <<"dir">>
Exists(p) == fs[p][1] # "absent"

\* os.rename(src, dst) on POSIX: dst is replaced
Rename(f, src, dst) == [f EXCEPT ![dst] = f[src], ![src] = Absent]

(***************************************************************************)
(* json.dump(obj, f) / json.load(f) of the legend: the text as its tokens. *)
(***************************************************************************)
RECURSIVE IntToDigits(_)
IntToDigits(n) ==
    IF n < 10 THEN <<Digits[n + 1]>>
    ELSE Append(IntToDigits(n \div 10), Digits[(n % 10) + 1])

Punct(c) == <<"punct", c>>
JsonStr(s) == <<"str", s>>
JsonNum(n) == <<"num", IntToDigits(n)>>

\* one {"value": v, "name": n} in the dict's insertion order
JsonDumpClass(c) ==
    <<Punct("{"), JsonStr("value"), Punct(":"), JsonNum(c.value), Punct(","),
      JsonStr("name"), Punct(":"), JsonStr(c.name), Punct("}")>>

RECURSIVE JsonDumpItems(_)
JsonDumpItems(list) ==
    IF list = <<>> THEN <<>>
    ELSE IF Len(list) = 1 THEN JsonDumpClass(list[1])
    ELSE JsonDumpClass(Head(list)) \o <<Punct(",")>> \o JsonDumpItems(Tail(list))

\* JsonDump losing the last element of the list
JsonDumpDropsLast(list) ==
    <<Punct("[")>> \o JsonDumpItems(SubSeq(list, 1, Len(list) - 1)) \o <<Punct("]")>>

JsonDump(list) == <<Punct("[")>> \o JsonDumpItems(list) \o <<Punct("]")>>

\* the value of one scalar token
JsonScalar(tok) ==
    IF tok[1] = "num" THEN <<"num", IntOf(tok[2], 1, Len(tok[2]))>> ELSE tok

\* the members of the object that starts at t[i], as <<key, value>> pairs
RECURSIVE JsonMembers(_, _)
JsonMembers(t, i) ==
    IF t[i] = Punct("}") THEN <<>>
    ELSE IF t[i] = Punct(",") \/ t[i] = Punct("{") THEN JsonMembers(t, i + 1)
    ELSE << <<t[i][2], JsonScalar(t[i + 2])>> >> \o JsonMembers(t, i + 3)

Member(ms, key) == (CHOOSE k \in 1..Len(ms) : ms[k][1] = key)

\* the object as a class record
JsonClass(ms) ==
    [value |-> ms[Member(ms, "value")][2][2], name |-> ms[Member(ms, "name")][2][2]]

RECURSIVE JsonObjects(_, _)
JsonObjects(t, i) ==
    IF i > Len(t) \/ t[i] = Punct("]") THEN <<>>
    ELSE IF t[i] = Punct("{")
         THEN LET ms == JsonMembers(t, i)
              IN  <<JsonClass(ms)>> \o JsonObjects(t, i + 3 * Len(ms) + Len(ms) + 1)
         ELSE JsonObjects(t, i + 1)

JsonLoads(t) == JsonObjects(t, 2)

(***************************************************************************)
(* pystac: Asset, Item, Catalog, normalize_hrefs, save                     *)
(***************************************************************************)
Asset(key, href, media_type, roles, title) ==
    [key |-> key, href |-> href, media_type |-> media_type, roles |-> roles,
     title |-> title]

NoItem ==
    [id |-> "", geometry |-> NoGeometry, bbox |-> <<>>, datetime |-> NoneDt,
     properties |-> [start_datetime |-> <<>>, end_datetime |-> <<>>,
                     classes |-> <<>>],
     assets |-> <<>>, self_href |-> <<>>]

NoCatalog == [id |-> "", items |-> <<>>, self_href |-> <<>>]

\* item.add_asset(key, asset): the assets keep their insertion order
AddAsset(it, asset) == [it EXCEPT !.assets = Append(@, asset)]

AssetKeys(it) == {it.assets[k].key : k \in 1..Len(it.assets)}
AssetOf(it, key) == it.assets[CHOOSE k \in 1..Len(it.assets) : it.assets[k].key = key]

\* the asset hrefs of the script, relative to the item's directory
RasterHref == <<"..", "..", "data", "gobindpur_lulc_2023_2024.tif">>
StyleHref == <<"..", "..", "data", "style_file.qml">>
\* ThumbnailHref one directory level short
ThumbnailHrefOneUp == <<"..", "data", "thumbnail.png">>
ThumbnailHref == <<"..", "..", "data", "thumbnail.png">>
LegendHref == <<"..", "..", "data", "legend.json">>

\* the best-practices layout normalize_hrefs applies: <root>/<id>/<id>.json
ItemHref(root, id) == PathJoin(PathJoin(root, id), id \o ".json")
CatalogHref(root) == PathJoin(root, "catalog.json")

\* Item.make_asset_hrefs_relative: an absolute href becomes relative to the
\* item's directory, a relative one is kept
RelativeAssets(it) ==
    [it EXCEPT !.assets =
        [k \in 1..Len(it.assets) |->
            IF IsAbsolute(it.assets[k].href)
            THEN [it.assets[k] EXCEPT
                    !.href = MakeRelative(@, Dirname(it.self_href))]
            ELSE it.assets[k]]]

\* Item.to_dict(): the document save() writes for the item
ItemDoc(it) ==
    [id |-> it.id, geometry |-> it.geometry, bbox |-> it.bbox,
     properties |-> it.properties, datetime |-> IsoFormat(it.datetime) \o <<"Z">>,
     assets |-> it.assets]

\* Catalog.to_dict() of a self-contained catalog: its item links, relative
CatalogDoc(cat) ==
    [id |-> cat.id,
     links |-> [k \in 1..Len(cat.items) |->
                  [rel |-> "item",
                   href |-> MakeRelative(cat.items[k], Dirname(cat.self_href))]]]

(***************************************************************************)
(* The script, statement by statement.                                     *)
(***************************************************************************)
FallbackStart == DateTime(2023, 6, 1, 0, 0, 0)
FallbackEnd == DateTime(2024, 3, 31, 0, 0, 0)

LulcClasses ==
    << [value |-> 1, name |-> "Water"], [value |-> 2, name |-> "Urban"],
       [value |-> 3, name |-> "Forest"], [value |-> 4, name |-> "Cropland"],
       [value |-> 5, name |-> "Barren"] >>

\* what a file some earlier process left at p holds
Leftovers == {default_item_path, custom_item_path, thumb_path, legend_path,
              catalog_path}

Init ==
    /\ pc = "mkdirs"
    /\ raster \in [bounds : BoundsValues, tag : TagValues]
    /\ \E left \in SUBSET Leftovers, style \in BOOLEAN, dir \in BOOLEAN :
         fs = [p \in Paths |->
                 IF p = tif_path THEN <<"tif">>
                 ELSE IF p = qgis_style_path
                      THEN (IF style THEN <<"qml">> ELSE Absent)
                 ELSE IF p = item_dir
                      THEN (IF dir \/ default_item_path \in left
                               \/ custom_item_path \in left
                            THEN Directory ELSE Absent)
                 ELSE IF p \in left THEN Stale ELSE Absent]
    /\ handles = 0
    /\ opens = 0
    /\ bbox = <<>>
    /\ geometry = NoGeometry
    /\ date_str = NoTag
    /\ start_dt = NoneDt
    /\ end_dt = NoneDt
    /\ catalog = NoCatalog
    /\ item = NoItem
    /\ lulc_classes = <<>>
    /\ log = <<>>

\* the statement at `at` ran to its end; `to` is next
Goto(at, to) == pc = at /\ pc' = to /\ log' = Append(log, at)

\* an unhandled exception at `at`: the process ends
Raise(at) == pc = at /\ pc' = "failed" /\ log' = log

\* line 19: os.makedirs(item_dir, exist_ok=True)
Mkdirs ==
    /\ Goto("mkdirs", "open1")
    /\ fs' = [fs EXCEPT ![item_dir] = Directory]
    /\ UNCHANGED <<raster, handles, opens, bbox, geometry, date_str, start_dt,
                   end_dt, catalog, item, lulc_classes>>

\* rasterio.open(tif_path) entering a with block
Open(at, to) ==
    /\ Goto(at, to)
    /\ handles' = handles + 1
    /\ opens' = opens + 1
    /\ UNCHANGED <<raster, fs, bbox, geometry, date_str, start_dt, end_dt,
                   catalog, item, lulc_classes>>

\* rasterio.open(tif_path) raising: no dataset was opened
OpenFail(at) ==
    /\ Raise(at)
    /\ UNCHANGED <<raster, fs, handles, opens, bbox, geometry, date_str,
                   start_dt, end_dt, catalog, item, lulc_classes>>

\* leaving a with block, normally or by an exception: the dataset is closed
Close == handles' = handles - 1

Open1 == Open("open1", "step1")
Open1Fail == OpenFail("open1")

\* Step1 with the bbox as [left, right, bottom, top]
Step1Swapped ==
    /\ Goto("step1", "open2")
    /\ LET b == raster.bounds
           bb == <<b.left, b.right, b.bottom, b.top>>
       IN  /\ bbox' = bb
           /\ geometry' = Box(bb)
    /\ Close
    /\ UNCHANGED <<raster, fs, opens, date_str, start_dt, end_dt, catalog, item,
                   lulc_classes>>

\* lines 23-25
Step1 ==
    /\ Goto("step1", "open2")
    /\ LET b == raster.bounds
           bb == <<b.left, b.bottom, b.right, b.top>>
       IN  /\ bbox' = bb
           /\ geometry' = Box(bb)
    /\ Close
    /\ UNCHANGED <<raster, fs, opens, date_str, start_dt, end_dt, catalog, item,
                   lulc_classes>>

Open2 == Open("open2", "step2")
Open2Fail == OpenFail("open2")

\* lines 32-40: the tag, parsed when it is truthy; a ValueError is caught
Step2 ==
    /\ Goto("step2", "fallback")
    /\ date_str' = raster.tag
    /\ LET r == Strptime(raster.tag)
       IN  IF Truthy(raster.tag) /\ r.ok
           THEN start_dt' = r.dt /\ end_dt' = r.dt
           ELSE UNCHANGED <<start_dt, end_dt>>
    /\ Close
    /\ UNCHANGED <<raster, fs, opens, bbox, geometry, catalog, item, lulc_classes>>

\* Fallback with line 45 lost: only the start is replaced
FallbackStartOnly ==
    /\ Goto("fallback", "step3")
    /\ IF IsNone(start_dt)
       THEN start_dt' = FallbackStart /\ UNCHANGED end_dt
       ELSE UNCHANGED <<start_dt, end_dt>>
    /\ UNCHANGED <<raster, fs, handles, opens, bbox, geometry, date_str, catalog,
                   item, lulc_classes>>

\* lines 43-45
Fallback ==
    /\ Goto("fallback", "step3")
    /\ IF IsNone(start_dt)
       THEN start_dt' = FallbackStart /\ end_dt' = FallbackEnd
       ELSE UNCHANGED <<start_dt, end_dt>>
    /\ UNCHANGED <<raster, fs, handles, opens, bbox, geometry, date_str, catalog,
                   item, lulc_classes>>

\* lines 48-62
Step3 ==
    /\ Goto("step3", "step4")
    /\ catalog' = [NoCatalog EXCEPT !.id = "gobindpur-lulc-catalog"]
    /\ item' = [NoItem EXCEPT
                  !.id = item_id, !.geometry = geometry, !.bbox = bbox,
                  !.datetime = start_dt,
                  !.properties.start_datetime = IsoFormat(start_dt) \o <<"Z">>,
                  !.properties.end_datetime = IsoFormat(end_dt) \o <<"Z">>]
    /\ UNCHANGED <<raster, fs, handles, opens, bbox, geometry, date_str, start_dt,
                   end_dt, lulc_classes>>

\* lines 65-73
Step4 ==
    /\ Goto("step4", "step5")
    /\ item' = AddAsset(item, Asset("raster-data", RasterHref, "image/tiff; application=geotiff",
                                    <<"data", "download">>,
                                    "Gobindpur LULC Raster (GeoTIFF)"))
    /\ UNCHANGED <<raster, fs, handles, opens, bbox, geometry, date_str, start_dt,
                   end_dt, catalog, lulc_classes>>

\* Step5 without the os.path.exists test
Step5Always ==
    /\ Goto("step5", "open3")
    /\ item' = AddAsset(item, Asset("qgis-style", StyleHref, "application/xml",
                                    <<"style", "download">>,
                                    "QGIS Style File (QML)"))
    /\ UNCHANGED <<raster, fs, handles, opens, bbox, geometry, date_str, start_dt,
                   end_dt, catalog, lulc_classes>>

\* Step5 with the thumbnail asset attached before the thumbnail is rendered
Step5ThenThumbAsset ==
    /\ Goto("step5", "thumb_asset")
    /\ IF Exists(qgis_style_path)
       THEN item' = AddAsset(item, Asset("qgis-style", StyleHref, "application/xml",
                                         <<"style", "download">>,
                                         "QGIS Style File (QML)"))
       ELSE UNCHANGED item
    /\ UNCHANGED <<raster, fs, handles, opens, bbox, geometry, date_str, start_dt,
                   end_dt, catalog, lulc_classes>>

\* lines 76-87
Step5 ==
    /\ Goto("step5", "open3")
    /\ IF Exists(qgis_style_path)
       THEN item' = AddAsset(item, Asset("qgis-style", StyleHref, "application/xml",
                                         <<"style", "download">>,
                                         "QGIS Style File (QML)"))
       ELSE UNCHANGED item
    /\ UNCHANGED <<raster, fs, handles, opens, bbox, geometry, date_str, start_dt,
                   end_dt, catalog, lulc_classes>>

Open3 == Open("open3", "step6")
Open3Fail == OpenFail("open3")

\* lines 92-97: band 1 read, plotted and saved to thumb_path
Step6 ==
    /\ Goto("step6", "thumb_asset")
    /\ fs' = [fs EXCEPT ![thumb_path] = <<"png", "band1">>]
    /\ Close
    /\ UNCHANGED <<raster, opens, bbox, geometry, date_str, start_dt, end_dt,
                   catalog, item, lulc_classes>>

\* Step6Fail with the exception swallowed: the script goes on
Step6FailSwallowed ==
    /\ Goto("step6", "thumb_asset")
    /\ Close
    /\ UNCHANGED <<raster, fs, opens, bbox, geometry, date_str, start_dt, end_dt,
                   catalog, item, lulc_classes>>

\* Step6Fail without the with block: the dataset stays open
Step6FailLeak ==
    /\ Raise("step6")
    /\ UNCHANGED <<raster, fs, handles, opens, bbox, geometry, date_str, start_dt,
                   end_dt, catalog, item, lulc_classes>>

\* lines 92-96 raising (read or plot): the with block still closes the dataset
Step6Fail ==
    /\ Raise("step6")
    /\ Close
    /\ UNCHANGED <<raster, fs, opens, bbox, geometry, date_str, start_dt, end_dt,
                   catalog, item, lulc_classes>>

\* lines 99-107
ThumbAsset ==
    /\ Goto("thumb_asset", "step7")
    /\ item' = AddAsset(item, Asset("thumbnail", ThumbnailHref, "image/png",
                                    <<"thumbnail">>, "Thumbnail Preview"))
    /\ UNCHANGED <<raster, fs, handles, opens, bbox, geometry, date_str, start_dt,
                   end_dt, catalog, lulc_classes>>

\* lines 110-117
Step7 ==
    /\ Goto("step7", "legend_write")
    /\ lulc_classes' = LulcClasses
    /\ item' = [item EXCEPT !.properties.classes = LulcClasses]
    /\ UNCHANGED <<raster, fs, handles, opens, bbox, geometry, date_str, start_dt,
                   end_dt, catalog>>

\* lines 119-121
LegendWrite ==
    /\ Goto("legend_write", "legend_asset")
    /\ fs' = [fs EXCEPT ![legend_path] = <<"legend", JsonDump(lulc_classes)>>]
    /\ UNCHANGED <<raster, handles, opens, bbox, geometry, date_str, start_dt,
                   end_dt, catalog, item, lulc_classes>>

\* line 120 raising: open(legend_path, "w") failed
LegendWriteFail ==
    /\ Raise("legend_write")
    /\ UNCHANGED <<raster, fs, handles, opens, bbox, geometry, date_str, start_dt,
                   end_dt, catalog, item, lulc_classes>>

\* lines 123-131
LegendAsset ==
    /\ Goto("legend_asset", "link")
    /\ item' = AddAsset(item, Asset("legend", LegendHref, "application/json",
                                    <<"legend">>, "LULC Legend (JSON)"))
    /\ UNCHANGED <<raster, fs, handles, opens, bbox, geometry, date_str, start_dt,
                   end_dt, catalog, lulc_classes>>

\* lines 134-136: add_item, normalize_hrefs, make_all_asset_hrefs_relative
Link ==
    /\ Goto("link", "save")
    /\ LET href == ItemHref(output_dir, item.id)
       IN  /\ item' = RelativeAssets([item EXCEPT !.self_href = href])
           /\ catalog' = [catalog EXCEPT !.items = Append(@, href),
                                         !.self_href = CatalogHref(output_dir)]
    /\ UNCHANGED <<raster, fs, handles, opens, bbox, geometry, date_str, start_dt,
                   end_dt, lulc_classes>>

\* line 137: save() writes the item, then the catalog
Save ==
    /\ Goto("save", "rename")
    /\ fs' = [fs EXCEPT ![item.self_href] = <<"item", ItemDoc(item)>>,
                        ![catalog.self_href] = <<"catalog", CatalogDoc(catalog)>>]
    /\ UNCHANGED <<raster, handles, opens, bbox, geometry, date_str, start_dt,
                   end_dt, catalog, item, lulc_classes>>

\* line 137 raising, before the item is written or before the catalog is
SaveFail ==
    /\ Raise("save")
    /\ \/ UNCHANGED fs
       \/ fs' = [fs EXCEPT ![item.self_href] = <<"item", ItemDoc(item)>>]
    /\ UNCHANGED <<raster, handles, opens, bbox, geometry, date_str, start_dt,
                   end_dt, catalog, item, lulc_classes>>

\* RenameItem without the os.path.exists test: os.rename raises when
\* item.json is absent
RenameItemUnguarded ==
    /\ IF Exists(default_item_path)
       THEN Goto("rename", "finish")
            /\ fs' = Rename(fs, default_item_path, custom_item_path)
       ELSE Raise("rename") /\ UNCHANGED fs
    /\ UNCHANGED <<raster, handles, opens, bbox, geometry, date_str, start_dt,
                   end_dt, catalog, item, lulc_classes>>

\* lines 140-143
RenameItem ==
    /\ Goto("rename", "finish")
    /\ IF Exists(default_item_path)
       THEN fs' = Rename(fs, default_item_path, custom_item_path)
       ELSE UNCHANGED fs
    /\ UNCHANGED <<raster, handles, opens, bbox, geometry, date_str, start_dt,
                   end_dt, catalog, item, lulc_classes>>

\* lines 145-150: the report; the process ends
Finish ==
    /\ Goto("finish", "done")
    /\ UNCHANGED <<raster, fs, handles, opens, bbox, geometry, date_str, start_dt,
                   end_dt, catalog, item, lulc_classes>>

Next ==
    \/ Mkdirs
    \/ Open1 \/ Open1Fail
    \/ Step1
    \/ Open2 \/ Open2Fail
    \/ Step2
    \/ Fallback
    \/ Step3
    \/ Step4
    \/ Step5
    \/ Open3 \/ Open3Fail
    \/ Step6 \/ Step6Fail
    \/ ThumbAsset
    \/ Step7
    \/ LegendWrite \/ LegendWriteFail
    \/ LegendAsset
    \/ Link
    \/ Save \/ SaveFail
    \/ RenameItem
    \/ Finish

Spec == Init /\ [][Next]_vars

(***************************************************************************)
(* Definitions the properties share.                                       *)
(***************************************************************************)
\* the statements of the script in program order (lines 19-150)
StageOrder ==
    <<"mkdirs", "open1", "step1", "open2", "step2", "fallback", "step3",
      "step4", "step5", "open3", "step6", "thumb_asset", "step7",
      "legend_write", "legend_asset", "link", "save", "rename", "finish">>

Executed(stage) == \E k \in 1..Len(log) : log[k] = stage

\* p was written by this run (the files found at the start are Stale,
\* or the two inputs)
Written(p, kind) == fs[p][1] = kind

BaseKeys == {"raster-data", "thumbnail", "legend"}

(***************************************************************************)
(* C1: after step 2 the temporal range is the parsed tag twice when the    *)
(* tag is present and parses, and the fallback pair 2023-06-01 /           *)
(* 2024-03-31 for every other tag; start and end are set together, the     *)
(* fallback start is before the fallback end, and start <= end.            *)
(***************************************************************************)
C1_TemporalResolver ==
    /\ IsNone(start_dt) <=> IsNone(end_dt)
    /\ Executed("fallback") =>
        /\ IF Truthy(raster.tag) /\ Strptime(raster.tag).ok
           THEN start_dt = Strptime(raster.tag).dt /\ end_dt = start_dt
           ELSE start_dt = DateTime(2023, 6, 1, 0, 0, 0)
                /\ end_dt = DateTime(2024, 3, 31, 0, 0, 0)
        /\ raster.tag = TagScenario => start_dt = DateTime(2023, 6, 15, 0, 0, 0)
        /\ raster.tag = TagUnpadded => start_dt = DateTime(2023, 6, 5, 1, 2, 3)
        /\ raster.tag = TagLeapDay => start_dt = DateTime(2024, 2, 29, 23, 59, 59)
        /\ raster.tag \in {NoTag, <<>>, TagNoSuchDay, TagSecond60, TagMonth13,
                           TagDateOnly, TagDashes, TagTrailing, TagYearZero}
             => start_dt = FallbackStart /\ end_dt = FallbackEnd
        /\ DtLess(FallbackStart, FallbackEnd)
        /\ ~IsNone(start_dt) /\ ~IsNone(end_dt)
        /\ DtLeq(start_dt, end_dt)

\* a malformed tag was read and the fallback range took its place
C1_Witness ==
    /\ pc = "step3"
    /\ date_str = TagNoSuchDay
    /\ start_dt = FallbackStart /\ end_dt = FallbackEnd

(***************************************************************************)
(* C2: from the save on, the item's asset keys are raster-data, thumbnail  *)
(* and legend, plus qgis-style exactly when the style file exists: four    *)
(* assets with the style file, three without; the document save() writes   *)
(* carries the same assets.                                                *)
(***************************************************************************)
C2_AssetKeys ==
    /\ pc \in {"save", "rename", "finish", "done"} =>
        /\ AssetKeys(item) =
              BaseKeys \cup (IF Exists(qgis_style_path) THEN {"qgis-style"} ELSE {})
        /\ Len(item.assets) = IF Exists(qgis_style_path) THEN 4 ELSE 3
        /\ "raster-data" \in AssetKeys(item)
    /\ pc = "rename" =>
        /\ Written(custom_item_path, "item")
        /\ fs[custom_item_path][2].assets = item.assets

\* a run without the style file ended with three assets
C2_Witness ==
    /\ pc = "done"
    /\ ~Exists(qgis_style_path)
    /\ AssetKeys(item) = BaseKeys

C4_ItemFileIsThisRun ==
    pc = "done" =>
        /\ Written(custom_item_path, "item")
        /\ fs[custom_item_path][2] = ItemDoc(item)
        /\ Written(catalog_path, "catalog")
        /\ Len(fs[catalog_path][2].links) = 1
        /\ Resolve(output_dir, fs[catalog_path][2].links[1].href) = custom_item_path

(***************************************************************************)
(* C5: after a completed run legend.json parses back to the five classes   *)
(* 1 Water, 2 Urban, 3 Forest, 4 Cropland, 5 Barren in that order, the     *)
(* list the item carries as classification:classes.                        *)
(***************************************************************************)
C5_LegendRoundTrip ==
    pc = "done" =>
        /\ Written(legend_path, "legend")
        /\ LET parsed == JsonLoads(fs[legend_path][2])
           IN  /\ Len(parsed) = 5
               /\ parsed = << [value |-> 1, name |-> "Water"],
                              [value |-> 2, name |-> "Urban"],
                              [value |-> 3, name |-> "Forest"],
                              [value |-> 4, name |-> "Cropland"],
                              [value |-> 5, name |-> "Barren"] >>
               /\ parsed = item.properties.classes

\* a completed run whose legend file holds the text of the five classes
C5_Witness ==
    /\ pc = "done"
    /\ Written(legend_path, "legend")
    /\ Len(fs[legend_path][2]) = 51
    /\ Len(item.properties.classes) = 5

C7_Recoverable ==
    /\ [](pc = "done" => log = StageOrder /\ Written(catalog_path, "catalog"))
    /\ [][/\ pc = "step2" => pc' = "fallback"
          /\ pc = "fallback" => pc' = "step3"
          /\ pc = "step5" => pc' = "open3"
          /\ pc = "rename" => pc' = "finish"
          /\ pc = "rename" /\ ~Exists(default_item_path) => fs' = fs
          /\ pc' = "failed" =>
               pc \in {"open1", "open2", "open3", "step6", "legend_write", "save"}
         ]_vars

\* all three conditions met in one run that still wrote the catalog
C7_Witness ==
    /\ pc = "done"
    /\ date_str = TagMonth13
    /\ ~Exists(qgis_style_path)
    /\ ~Exists(default_item_path)
    /\ Written(catalog_path, "catalog")
    /\ Written(custom_item_path, "item")

(***************************************************************************)
(* C8: a fatal failure ends the run where it happens: nothing runs after   *)
(* it and no file this run wrote is removed or changed by it; so a         *)
(* catalog.json of this run implies a thumbnail.png and a legend.json of   *)
(* this run, while a failed run can leave those behind without a catalog.  *)
(***************************************************************************)
C8_Fatal ==
    /\ [](Written(catalog_path, "catalog") =>
            Written(thumb_path, "png") /\ Written(legend_path, "legend"))
    /\ [](pc = "failed" => ~Written(catalog_path, "catalog"))
    /\ [][/\ pc = "failed" => UNCHANGED vars
          /\ pc' = "failed" =>
               /\ log' = log
               /\ \A p \in Paths :
                    fs[p][1] \notin {"absent", "stale"} => fs'[p] = fs[p]
         ]_vars

\* the save failed after the thumbnail and the legend were written
C8_Witness ==
    /\ pc = "failed"
    /\ Exists(item_dir)
    /\ Written(thumb_path, "png")
    /\ Written(legend_path, "legend")
    /\ ~Exists(catalog_path)

(***************************************************************************)
(* C9: the thumbnail asset is on the item only once thumbnail.png is       *)
(* written, the legend asset only once legend.json is written, the item is *)
(* in the catalog and on disk only with all its assets, and the stages run *)
(* in program order, each at most once.                                    *)
(***************************************************************************)
C9_StageOrder ==
    LET allKeys == BaseKeys \cup (IF Exists(qgis_style_path) THEN {"qgis-style"} ELSE {})
    IN  /\ "thumbnail" \in AssetKeys(item) => Written(thumb_path, "png")
        /\ "legend" \in AssetKeys(item) => Written(legend_path, "legend")
        /\ catalog.items # <<>> => AssetKeys(item) = allKeys
        /\ Written(custom_item_path, "item") =>
              AssetKeys(fs[custom_item_path][2]) = allKeys
        /\ Written(catalog_path, "catalog") => AssetKeys(item) = allKeys
        /\ Len(log) <= Len(StageOrder)
        /\ log = SubSeq(StageOrder, 1, Len(log))
        /\ \A j, k \in 1..Len(log) : j # k => log[j] # log[k]

\* a completed run: all nineteen statements, once each
C9_Witness ==
    /\ pc = "done"
    /\ log = StageOrder
    /\ Cardinality({log[k] : k \in 1..Len(log)}) = Len(StageOrder)

(***************************************************************************)
(* C10: a dataset is open only inside the three with blocks, one at a      *)
(* time; each open finds none open; a completed run opened the raster      *)
(* three times; none is open during the save or when the process ends,     *)
(* also when it ends by an error raised inside a with block.               *)
(***************************************************************************)
C10_Handles ==
    /\ [](/\ handles = (IF pc \in {"step1", "step2", "step6"} THEN 1 ELSE 0)
          /\ handles <= 1
          /\ pc \in {"save", "rename", "finish", "done", "failed"} => handles = 0
          /\ pc = "done" => opens = 3
          /\ opens <= 3)
    /\ [][opens' # opens => handles = 0 /\ opens' = opens + 1 /\ handles' = 1]_vars

\* the render raised inside the third with block and the dataset was closed
C10_Witness ==
    /\ pc = "failed"
    /\ opens = 3
    /\ handles = 0
    /\ ~Written(thumb_path, "png")
====
